---- MODULE Spec2Model ----
(***************************************************************************)
(* State-machine model of the Launchpad wizard, src/plus/focus/focus.ts:   *)
(* FocusCommand.steps (the step loop), pickFocusItemStep (list building    *)
(* and the asynchronous button handlers), confirmStep, the action          *)
(* dispatcher, updateContextItems / updateTelemetryContext.                *)
(*                                                                         *)
(* Strings that the claims inspect are sequences of words.  A position of  *)
(* the generator (pc) is a suspension point: a yield (a step shown to the  *)
(* user) or an await of the aggregation service.  Code that runs between   *)
(* two suspension points runs without interleaving (one JavaScript task),  *)
(* so it is one action.                                                    *)
(***************************************************************************)
EXTENDS Integers, Sequences, FiniteSets, TLC

(* ------------------------------ bounds --------------------------------- *)

\* Button-handler invocations (Refresh, item buttons) that may be in flight
\* at the same time.
MaxInFlight == 2

\* Inputs of the user (selections, Back, button clicks) in one run of the command.
MaxUserInputs == 3

(* ------------------------------ tables --------------------------------- *)

\* actionGroupMap: category -> <<title, description template>>, as words.
actionGroupMap(cat) ==
    CASE cat = "mergeable" -> << <<"Ready", "to", "Merge">>, <<"Ready", "to", "merge">> >>
      [] cat = "unassigned-reviewers" ->
            << <<"Unassigned", "Reviewers">>, <<"You", "need", "to", "assign", "reviewers">> >>
      [] cat = "failed-checks" ->
            << <<"Failed", "Checks">>,
               <<"You", "need", "to", "resolve", "the", "failing", "checks">> >>
      [] cat = "conflicts" ->
            << <<"Resolve", "Conflicts">>,
               <<"You", "need", "to", "resolve", "merge", "conflicts">> >>
      [] cat = "needs-my-review" ->
            << <<"Needs", "Your", "Review">>, <<"${author}", "requested", "your", "review">> >>
      [] cat = "code-suggestions" ->
            << <<"Code", "Suggestions">>,
               <<"Code", "suggestions", "have", "been", "made", "on", "this", "pull", "request">> >>
      [] cat = "changes-requested" ->
            << <<"Changes", "Requested">>,
               <<"Reviewers", "requested", "changes", "before", "this", "can", "be", "merged">> >>
      [] cat = "reviewer-commented" ->
            << <<"Reviewers", "Commented">>,
               <<"Reviewers", "have", "commented", "on", "this", "pull", "request">> >>
      [] cat = "waiting-for-review" ->
            << <<"Waiting", "for", "Review">>,
               <<"Waiting", "for", "reviewers", "to", "approve", "this", "pull", "request">> >>
      [] cat = "draft" -> << <<"Draft">>, <<"Continue", "working", "on", "your", "draft">> >>
      [] cat = "other" ->
            << <<"Other">>, <<"Opened", "by", "${author}", "${createdDateRelative}">> >>

Categories ==
    {"mergeable", "unassigned-reviewers", "failed-checks", "conflicts", "needs-my-review",
     "code-suggestions", "changes-requested", "reviewer-commented", "waiting-for-review",
     "draft", "other"}

\* groupMap: the groups in the order of the map (titles and icons play no part).
groupMap ==
    <<"current-branch", "pinned", "mergeable", "blocked", "follow-up", "needs-review",
      "waiting-for-review", "draft", "other", "snoozed">>

Groups == {groupMap[i] : i \in 1..Len(groupMap)}

(* --------------------------- the item model ---------------------------- *)

Item(id, cat, pinned, snoozed) ==
    [id |-> id, cat |-> cat, pinned |-> pinned, snoozed |-> snoozed,
     author |-> "alice", updated |-> [n |-> 1, unit |-> "hours"],
     created |-> [n |-> 2, unit |-> "days"]]

\* GroupedFocusItem: { ...item, group }
WithGroup(i, g) ==
    [id |-> i.id, cat |-> i.cat, pinned |-> i.pinned, snoozed |-> i.snoozed,
     author |-> i.author, updated |-> i.updated, created |-> i.created, group |-> g]

\* state.item == null
NoItem == WithGroup(Item(0, "none", FALSE, FALSE), "none")

ItemA == Item(1, "mergeable", FALSE, FALSE)
ItemApinned == Item(1, "mergeable", TRUE, FALSE)
ItemB == Item(2, "conflicts", FALSE, FALSE)

\* What container.focus.getCategorizedItems may return: the service's answer is
\* outside the program, any of these at every call.
FetchResults ==
    { <<>>, <<ItemB>>, <<ItemApinned, ItemB>> }

(* ------------------- collaborators outside this file ------------------- *)

\* focusProvider: the group of an actionable category.
categoryGroup(cat) ==
    CASE cat = "mergeable" -> "mergeable"
      [] cat \in {"unassigned-reviewers", "failed-checks", "conflicts"} -> "blocked"
      [] cat \in {"code-suggestions", "changes-requested", "reviewer-commented"} -> "follow-up"
      [] cat = "needs-my-review" -> "needs-review"
      [] cat = "waiting-for-review" -> "waiting-for-review"
      [] cat = "draft" -> "draft"
      [] OTHER -> "other"

\* focusProvider: the groups an item is listed under.  A snoozed item is listed
\* under snoozed alone; a pinned item under pinned and under its category's group.
groupsOf(i) ==
    IF i.snoozed THEN {"snoozed"}
    ELSE (IF i.pinned THEN {"pinned"} ELSE {}) \cup {categoryGroup(i.cat)}

\* focusProvider.groupAndSortFocusItems: group -> the group's items, in order.
groupAndSortFocusItems(items) ==
    [g \in Groups |-> SelectSeq(items, LAMBDA i : g \in groupsOf(i))]

\* focusProvider.countFocusItemGroups: the groups that have items, with their counts.
countFocusItemGroups(items) ==
    LET ui == groupAndSortFocusItems(items)
        has == {g \in Groups : Len(ui[g]) > 0}
    IN  [g \in has |-> Len(ui[g])]

\* system/date fromNow: the relative rendering of a date.
fromNow(d) == <<ToString(d.n), d.unit, "ago">>

\* system/string interpolate: every ${key} word replaced by the key's value.
RECURSIVE interpolate(_, _)
interpolate(template, ctx) ==
    IF template = <<>> THEN <<>>
    ELSE LET w == Head(template)
             v == CASE w = "${author}" -> ctx.author
                    [] w = "${createdDateRelative}" -> ctx.createdDateRelative
                    [] OTHER -> <<w>>
         IN  v \o interpolate(Tail(template), ctx)

(* ----------------------------- getItems -------------------------------- *)

\* The buttons of an item entry (focus.ts 367-377).
itemButtons(i) ==
    (IF i.cat = "mergeable" THEN <<"Merge">> ELSE <<>>)
    \o <<IF i.pinned THEN "Unpin" ELSE "Pin">>
    \o <<IF i.snoozed THEN "Unsnooze" ELSE "Snooze">>
    \o <<"OpenOnGitHub">>

\* A variant of itemDetail that prints the category's description where the code
\* prints its title.
itemDetailDescription(i) ==
    <<"      ">>
    \o (IF i.cat = "other" THEN <<>> ELSE actionGroupMap(i.cat)[2] \o <<"u2022">>)
    \o fromNow(i.updated) \o <<"by", "@", i.author>>

\* The detail line of an item entry (focus.ts 387-391).
itemDetail(i) ==
    <<"      ">>
    \o (IF i.cat = "other" THEN <<>> ELSE actionGroupMap(i.cat)[1] \o <<"u2022">>)
    \o fromNow(i.updated) \o <<"by", "@", i.author>>

\* The detail line of the confirm step's first entry (focus.ts 511-514).
confirmDetail(i) ==
    interpolate(actionGroupMap(i.cat)[2],
                [author |-> <<i.author>>, createdDateRelative |-> fromNow(i.created)])

Entry(t, g, i, picked, n, chevron) ==
    [t |-> t, group |-> g, item |-> i, picked |-> picked, n |-> n, chevron |-> chevron,
     buttons |-> IF t = "item" THEN itemButtons(i) ELSE <<>>,
     detail |-> IF t = "item" THEN itemDetail(i) ELSE <<>>]

NoEntryItem == Item(0, "none", FALSE, FALSE)

\* createDirectiveQuickPickItem(Directive.Cancel, undefined, { label: 'OK' })
CancelEntry == Entry("cancel", "none", NoEntryItem, FALSE, 0, "none")

\* context.collapsed.get(ui), as a condition
isCollapsed(collapsed, ui) == collapsed[ui] = "true"

\* topItem (focus.ts 326-332); id 0 is undefined.
topItemId(uiGroups, picked, selectTopItem) ==
    IF ~selectTopItem \/ picked # 0 THEN 0
    ELSE IF Len(uiGroups["mergeable"]) > 0 THEN uiGroups["mergeable"][1].id
    ELSE IF Len(uiGroups["blocked"]) > 0 THEN uiGroups["blocked"][1].id
    ELSE IF Len(uiGroups["follow-up"]) > 0 THEN uiGroups["follow-up"][1].id
    ELSE IF Len(uiGroups["needs-review"]) > 0 THEN uiGroups["needs-review"][1].id
    ELSE 0

\* One item entry (focus.ts 379-398): tagged with the group it is listed under.
itemEntry(i, ui, picked, top) ==
    Entry("item", ui, i, (picked # 0 /\ i.id = picked) \/ (top # 0 /\ i.id = top), 0, "none")

\* A variant of groupEntries that lists the items of a collapsed group as well.
groupEntriesIgnoreCollapse(ui, groupItems, collapsed, picked, top) ==
    IF Len(groupItems) = 0 THEN <<>>
    ELSE << Entry("sep", ui, NoEntryItem, FALSE, Len(groupItems), "none"),
            Entry("header", ui, NoEntryItem, FALSE, 0,
                  IF isCollapsed(collapsed, ui) THEN "chevron-down" ELSE "chevron-up") >>
         \o [k \in 1..Len(groupItems) |-> itemEntry(groupItems[k], ui, picked, top)]

\* The entries one group contributes (the body of the loop, focus.ts 334-400).
groupEntries(ui, groupItems, collapsed, picked, top) ==
    IF Len(groupItems) = 0 THEN <<>>
    ELSE << Entry("sep", ui, NoEntryItem, FALSE, Len(groupItems), "none"),
            Entry("header", ui, NoEntryItem, FALSE, 0,
                  IF isCollapsed(collapsed, ui) THEN "chevron-down" ELSE "chevron-up") >>
         \o (IF isCollapsed(collapsed, ui) THEN <<>>
             ELSE [k \in 1..Len(groupItems) |-> itemEntry(groupItems[k], ui, picked, top)])

RECURSIVE getItemsFrom(_, _, _, _, _)
getItemsFrom(k, uiGroups, collapsed, picked, top) ==
    IF k > Len(groupMap) THEN <<>>
    ELSE groupEntries(groupMap[k], uiGroups[groupMap[k]], collapsed, picked, top)
         \o getItemsFrom(k + 1, uiGroups, collapsed, picked, top)

\* getItems (focus.ts 321-405), with the closure's picked and selectTopItem.
getItems(categorizedItems, collapsed, picked, selectTopItem) ==
    IF Len(categorizedItems) = 0 THEN <<>>
    ELSE LET uiGroups == groupAndSortFocusItems(categorizedItems)
         IN  getItemsFrom(1, uiGroups, collapsed, picked,
                          topItemId(uiGroups, picked, selectTopItem))

\* The list and placeholder createPickStep is given (focus.ts 407-413).
stepItems(items) == IF Len(items) = 0 THEN <<CancelEntry>> ELSE items

placeholderOf(items) ==
    IF Len(items) = 0 THEN "All done! Take a vacation" ELSE "Choose an item to focus on"

(* ------------------------------ state ---------------------------------- *)

VARIABLES
    pc,                \* where the steps generator is suspended
    state,             \* the step state: counter, confirm, item, action, initialGroup, selectTopItem
    context,           \* items, collapsed, telemetryContext
    opened,            \* the local `opened` of steps
    quickpick,         \* the pick-item step's widget: items, placeholder, busy, and the
                       \* picked / selectTopItem its getItems closure holds
    tasks,             \* the button-handler invocations in flight, oldest first
    telemetryEnabled,  \* container.telemetry.enabled
    trace,             \* what the generator did in the current loop iteration
    err,               \* the error steps threw, <<>> when none
    sel,               \* history: the entry the user selected last in the pick-item step
    hist,              \* history: a pick step returned an item / the confirm step was shown /
                       \* an integration was found connected / the 'launchpad/opened'
                       \* events sent / the first step event sent / the handler
                       \* fetches that rejected
    tog,               \* history: the last header selections in a row on one group
    inputs,            \* the number of inputs the user has made
    render,            \* an item and the detail lines rendered for it
    pending            \* the dispatched service operations nobody awaits, still running

vars ==
    <<pc, state, context, opened, quickpick, tasks, telemetryEnabled, trace, err, sel, hist,
      tog, inputs, render, pending>>

\* One more input of the user, within the bound.
UserInput == inputs < MaxUserInputs /\ inputs' = inputs + 1

NoAction == [kind |-> "none", action |-> "none", target |-> "none"]
StringAction(a) == [kind |-> "string", action |-> a, target |-> "none"]
TargetAction(a, t) == [kind |-> "target", action |-> a, target |-> t]

\* FocusAction (focusProvider), the string actions.
FocusActions ==
    {"merge", "open", "soft-open", "switch", "switch-and-code-suggest", "open-changes",
     "show-overview", "open-in-graph", "code-suggest"}

\* What the confirm step can offer: 'soft-open' rows, one row per suggested action,
\* one open-suggestion row per code suggestion (focus.ts 505-636, 810-842).
ConfirmActions ==
    {StringAction(a) : a \in FocusActions} \cup {TargetAction("open-suggestion", "suggestion1")}

\* The integrations the connect step offers (focus.ts 671-687): GitHub alone.
OfferedIntegrations == {"github"}

Ev(k, n, x, g, id) == [k |-> k, n |-> n, x |-> x, g |-> g, id |-> id]

\* container.telemetry.sendEvent, guarded by container.telemetry.enabled
Tel(n, x, g, id) == IF telemetryEnabled THEN <<Ev("tel", n, x, g, id)>> ELSE <<>>

\* A variant of stepEventName that names every display 'launchpad/opened'.
stepEventNameOpened(isOpened, later) == "launchpad/opened"

\* The name of the event of a step's display (focus.ts 206, 237):
\* opened ? 'launchpad/steps/...' : 'launchpad/opened'
stepEventName(isOpened, later) == IF isOpened THEN later ELSE "launchpad/opened"

\* hist after step event n has been sent, if telemetry is on.
sent(h, n) ==
    IF telemetryEnabled
    THEN [h EXCEPT !.opened = IF n = "launchpad/opened" /\ @ < 2 THEN @ + 1 ELSE @,
                   !.first = IF @ = "none" THEN n ELSE @]
    ELSE h

NoQuickPick ==
    [items |-> <<>>, placeholder |-> "none", busy |-> FALSE, picked |-> 0,
     selectTopItem |-> FALSE]

NoRender == [item |-> NoEntryItem, pick |-> <<>>, confirm |-> <<>>]
NoSel == [group |-> "none", id |-> 0]
NoTog == [group |-> "none", n |-> 0, before |-> {}, start |-> "none"]

(* ---------------------- quickCommand (the framework) ------------------- *)

\* QuickCommand.canStepsContinue
canStepsContinue(st) == st.counter >= 0

\* endSteps
endSteps(st) == [st EXCEPT !.counter = -1]

\* canPickStepContinue on a selection: the counter advances
stepForward(st) == [st EXCEPT !.counter = st.counter + 1]

\* canPickStepContinue on Back: the counter goes back one step, not below 0
stepBack(st) == [st EXCEPT !.counter = IF st.counter - 1 <= 0 THEN 0 ELSE st.counter - 1]

(* ------------------------- telemetry context --------------------------- *)

\* FocusCommand.telemetryContext as the constructor leaves it (focus.ts 145-151):
\* no items.* / groups.* keys yet; undefined when telemetry is off.
initialTelemetryContext(enabled) ==
    [defined |-> enabled, itemsCount |-> -1, groupsCount |-> -1,
     count |-> [g \in Groups |-> -1], collapsed |-> [g \in Groups |-> "nokey"]]

\* updateTelemetryContext (focus.ts 973-986): the old context is spread, the two
\* totals are set, and the keys of the groups that have items now are set.
updateTelemetryContext(ctx) ==
    LET grouped == countFocusItemGroups(ctx.items)
        old == ctx.telemetryContext
    IN  [ctx EXCEPT !.telemetryContext =
            [defined |-> TRUE,
             itemsCount |-> Len(ctx.items),
             groupsCount |-> Cardinality(DOMAIN grouped),
             count |-> [g \in Groups |->
                          IF g \in DOMAIN grouped THEN grouped[g] ELSE old.count[g]],
             collapsed |-> [g \in Groups |->
                          IF g \in DOMAIN grouped THEN ctx.collapsed[g]
                          ELSE old.collapsed[g]]]]

\* A variant of updateContextItems that expands every group that has items.
updateContextItemsExpanding(ctx, r) ==
    LET c1 == [ctx EXCEPT !.items = r,
                          !.collapsed = [g \in Groups |->
                              IF g \in DOMAIN countFocusItemGroups(r) THEN "false"
                              ELSE ctx.collapsed[g]]]
    IN  IF telemetryEnabled THEN updateTelemetryContext(c1) ELSE c1

\* updateContextItems (focus.ts 966-971) once getCategorizedItems has answered r.
updateContextItems(ctx, r) ==
    LET c1 == [ctx EXCEPT !.items = r]
    IN  IF telemetryEnabled THEN updateTelemetryContext(c1) ELSE c1

\* A variant of initialCollapsed that expands the initial group only when it is
\* not one of the three groups collapsed by default.
initialCollapsedKeepDefaults(initialGroup) ==
    [g \in Groups |->
        IF g \in {"draft", "other", "snoozed"} THEN "true"
        ELSE IF initialGroup = "none" THEN "unset"
        ELSE IF g # initialGroup THEN "true" ELSE "false"]

\* The collapse map steps builds (focus.ts 179-189).
initialCollapsed(initialGroup) ==
    IF initialGroup = "none"
    THEN [g \in Groups |-> IF g \in {"draft", "other", "snoozed"} THEN "true" ELSE "unset"]
    ELSE [g \in Groups |-> IF g # initialGroup THEN "true" ELSE "false"]

\* A variant of toggled that collapses the group whatever its state.
toggledCollapseOnly(collapsed, ui) == [collapsed EXCEPT ![ui] = "true"]

\* onDidSelect of a group header (focus.ts 343-345): collapsed.set(ui, !collapsed.get(ui))
toggled(collapsed, ui) ==
    [collapsed EXCEPT ![ui] = IF isCollapsed(collapsed, ui) THEN "false" ELSE "true"]

(* ------------------------------ dispatch ------------------------------- *)

\* A variant of dispatch where 'switch' also asks for a code suggestion.
dispatchSwitchSuggests(a, item) ==
    IF a.kind = "string"
    THEN CASE a.action = "merge" -> <<Ev("svc", "merge", "", item.group, item.id)>>
           [] a.action \in {"open", "soft-open"} -> <<Ev("svc", "open", "", item.group, item.id)>>
           [] a.action = "show-overview" -> <<Ev("svc", "switchTo", "", item.group, item.id)>>
           [] a.action \in {"switch", "switch-and-code-suggest", "code-suggest"} ->
                <<Ev("svc", "switchTo", "true", item.group, item.id)>>
           [] a.action = "open-changes" -> <<Ev("svc", "openChanges", "", item.group, item.id)>>
           [] a.action = "open-in-graph" -> <<Ev("svc", "openInGraph", "", item.group, item.id)>>
           [] OTHER -> <<>>
    ELSE IF a.kind = "target" /\ a.action = "open-suggestion"
    THEN <<Ev("svc", "openCodeSuggestion", a.target, item.group, item.id)>>
    ELSE <<>>

\* The service operation an action is dispatched to (focus.ts 273-308).
dispatch(a, item) ==
    IF a.kind = "string"
    THEN CASE a.action = "merge" -> <<Ev("svc", "merge", "", item.group, item.id)>>
           [] a.action \in {"open", "soft-open"} -> <<Ev("svc", "open", "", item.group, item.id)>>
           [] a.action \in {"switch", "show-overview"} ->
                <<Ev("svc", "switchTo", "", item.group, item.id)>>
           [] a.action \in {"switch-and-code-suggest", "code-suggest"} ->
                <<Ev("svc", "switchTo", "true", item.group, item.id)>>
           [] a.action = "open-changes" -> <<Ev("svc", "openChanges", "", item.group, item.id)>>
           [] a.action = "open-in-graph" -> <<Ev("svc", "openInGraph", "", item.group, item.id)>>
           [] OTHER -> <<>>
    ELSE IF a.kind = "target" /\ a.action = "open-suggestion"
    THEN <<Ev("svc", "openCodeSuggestion", a.target, item.group, item.id)>>
    ELSE <<>>

\* The operations the switch starts with `void`: their promise is dropped
\* (focus.ts 276, 288, 292, 295, 298); open and openCodeSuggestion return at once.
notAwaited(a, item) ==
    {e.n : e \in {dispatch(a, item)[k] : k \in 1..Len(dispatch(a, item))}}
    \cap {"merge", "switchTo", "openChanges", "openInGraph"}

\* The case of the switch that leaves the iteration by continue (focus.ts 282).
isSoftOpen(a) == a.kind = "string" /\ a.action = "soft-open"

\* A variant of afterDispatch where 'soft-open' goes back to the pick-item step.
afterDispatchToPick(st) ==
    IF isSoftOpen(st.action)
    THEN [st EXCEPT !.counter = 1]
    ELSE endSteps(st)

\* After the switch: 'soft-open' sets the counter to 2 and continues, everything
\* else reaches endSteps (focus.ts 282-285, 310).
afterDispatch(st) ==
    IF isSoftOpen(st.action)
    THEN [st EXCEPT !.counter = 2]
    ELSE endSteps(st)

\* A variant of Dispatch that sends the action's telemetry event after the
\* dispatch.
DispatchTelemetryLast(st, tr) ==
    /\ pc' = "head"
    /\ state' = afterDispatch(st)
    /\ trace' = tr
                \o dispatch(st.action, st.item)
                \o (IF st.action # NoAction
                    THEN Tel("launchpad/action", st.action.action, st.item.group, st.item.id)
                    ELSE <<>>)
                \o (IF isSoftOpen(st.action)
                    THEN <<>> ELSE <<Ev("ctl", "endSteps", "", "none", 0)>>)
    /\ pending' = pending \cup notAwaited(st.action, st.item)

\* focus.ts 269-311: the action's telemetry event, the dispatch, the end of the
\* iteration.
Dispatch(st, tr) ==
    /\ pc' = "head"
    /\ state' = afterDispatch(st)
    /\ trace' = tr
                \o (IF st.action # NoAction
                    THEN Tel("launchpad/action", st.action.action, st.item.group, st.item.id)
                    ELSE <<>>)
                \o dispatch(st.action, st.item)
                \o (IF isSoftOpen(st.action)
                    THEN <<>> ELSE <<Ev("ctl", "endSteps", "", "none", 0)>>)
    /\ pending' = pending \cup notAwaited(st.action, st.item)

\* focus.ts 257-267, up to the await: with confirmation on, the code suggestions
\* are awaited; otherwise the preset action is dispatched at once.
Proceed(st, tr) ==
    IF st.confirm
    THEN /\ pc' = "ensure"
         /\ state' = st
         /\ pending' = pending
         /\ trace' = tr \o <<Ev("svc", "ensureFocusItemCodeSuggestions", "",
                                st.item.group, st.item.id)>>
    ELSE Dispatch(st, tr)

(* ------------------------------- Init ---------------------------------- *)

\* The state after the constructor (focus.ts 132-162): counter 0, the confirm
\* flag and the preset state of the command's arguments.
StartState(confirm, item, action, initialGroup, selectTopItem) ==
    [counter |-> 0, confirm |-> confirm, item |-> item, action |-> action,
     initialGroup |-> initialGroup, selectTopItem |-> selectTopItem]

PresetItems == {NoItem, WithGroup(ItemA, "mergeable")}
PresetActions == {NoAction, StringAction("soft-open"), StringAction("open")}

\* The runs explored: every combination of the confirm flag, a preset item and a
\* preset action; an initial group; selectTopItem; telemetry off.
InitialRuns ==
    {<<TRUE, StartState(c, i, a, "none", FALSE)>> :
        c \in BOOLEAN, i \in PresetItems, a \in PresetActions}
    \cup {<<TRUE, StartState(TRUE, NoItem, NoAction, g, FALSE)>> : g \in {"mergeable", "snoozed"}}
    \cup {<<TRUE, StartState(TRUE, i, NoAction, "none", TRUE)>> : i \in PresetItems}
    \cup {<<FALSE, StartState(c, NoItem, NoAction, "none", FALSE)>> : c \in BOOLEAN}

Init ==
    /\ pc = "start"
    /\ \E run \in InitialRuns : telemetryEnabled = run[1] /\ state = run[2]
    /\ context = [items |-> <<>>, collapsed |-> [g \in Groups |-> "unset"],
                  telemetryContext |-> initialTelemetryContext(telemetryEnabled)]
    /\ opened = FALSE
    /\ quickpick = NoQuickPick
    /\ tasks = <<>>
    /\ trace = <<>>
    /\ err = <<>>
    /\ sel = NoSel
    /\ hist = [picked |-> FALSE, confirm |-> FALSE, connected |-> FALSE, opened |-> 0,
               first |-> "none", rejected |-> 0]
    /\ tog = NoTog
    /\ inputs = 0
    /\ render = NoRender
    /\ pending = {}

(* --------------------------- the steps loop ---------------------------- *)

\* steps, up to the loop (focus.ts 174-198): the collapse map and the context.
Start ==
    /\ pc = "start"
    /\ pc' = "head"
    /\ context' = [context EXCEPT !.collapsed = initialCollapsed(state.initialGroup)]
    /\ UNCHANGED <<state, opened, quickpick, tasks, telemetryEnabled, trace, err, sel,
                   hist, tog, inputs, render, pending>>

\* while (this.canStepsContinue(state)) fails: the generator returns.
HeadDone ==
    /\ pc = "head"
    /\ ~canStepsContinue(state)
    /\ pc' = "done"
    /\ UNCHANGED <<state, context, opened, quickpick, tasks, telemetryEnabled, trace, err,
                   sel, hist, tog, inputs, render, pending>>

\* A variant of HeadConnect that checks the connection at every counter.
HeadConnectAnyCounter ==
    /\ pc = "head"
    /\ canStepsContinue(state)
    /\ pc' = "connectStep"
    /\ trace' = Tel(stepEventName(opened, "launchpad/steps/connect"),
                    "connected:false", "none", 0)
                \o <<Ev("ui", "connectStep", "", "none", 0)>>
    /\ hist' = sent(hist, stepEventName(opened, "launchpad/steps/connect"))
    /\ opened' = TRUE
    /\ UNCHANGED <<state, context, quickpick, tasks, telemetryEnabled, err, sel, tog,
                   inputs, render, pending>>

\* focus.ts 203-217: counter < 1 and hasConnectedIntegration() answered false: the
\* connect step is shown.
HeadConnect ==
    /\ pc = "head"
    /\ canStepsContinue(state)
    /\ state.counter < 1
    /\ pc' = "connectStep"
    /\ trace' = Tel(stepEventName(opened, "launchpad/steps/connect"),
                    "connected:false", "none", 0)
                \o <<Ev("ui", "connectStep", "", "none", 0)>>
    /\ hist' = sent(hist, stepEventName(opened, "launchpad/steps/connect"))
    /\ opened' = TRUE
    /\ UNCHANGED <<state, context, quickpick, tasks, telemetryEnabled, err, sel, tog,
                   inputs, render, pending>>

\* focus.ts 203, 232: counter >= 1, or hasConnectedIntegration() answered true: the
\* items are requested.
HeadFetch ==
    /\ pc = "head"
    /\ canStepsContinue(state)
    /\ pc' = "fetch"
    /\ trace' = <<Ev("svc", "getCategorizedItems", "", "none", 0)>>
    /\ hist' = IF state.counter < 1 THEN [hist EXCEPT !.connected = TRUE] ELSE hist
    /\ UNCHANGED <<state, context, opened, quickpick, tasks, telemetryEnabled, err, sel,
                   tog, inputs, render, pending>>

\* The connect step returned an integration (focus.ts 217-218, 696-697).
ConnectSelect(id) ==
    /\ UserInput
    /\ pc = "connectStep"
    /\ pc' = "connecting"
    /\ state' = stepForward(state)
    /\ trace' = trace \o <<Ev("ui", "connectSelected", id, "none", 0)>>
    /\ UNCHANGED <<context, opened, quickpick, tasks, telemetryEnabled, err, sel, hist,
                   tog, render, pending>>

\* The connect step returned StepResultBreak on Back: the if is skipped and the
\* items are requested (focus.ts 218, 232).
ConnectBack ==
    /\ UserInput
    /\ pc = "connectStep"
    /\ pc' = "fetch"
    /\ state' = stepBack(state)
    /\ trace' = trace \o <<Ev("ui", "connectBack", "", "none", 0),
                           Ev("svc", "getCategorizedItems", "", "none", 0)>>
    /\ UNCHANGED <<context, opened, quickpick, tasks, telemetryEnabled, err, sel, hist,
                   tog, render, pending>>

\* A variant of integrationName that always prints the fallback form.
integrationNameFallback(id) == <<"integration", "(", id, ")">>

\* The name the error gives the integration (focus.ts 219-227).
integrationName(id) ==
    IF id = "github" THEN <<"GitHub">> ELSE <<"integration", "(", id, ")">>

\* ensureIntegrationConnected (focus.ts 164-172) answered; false throws.
ConnectDone(connected) ==
    /\ pc = "connecting"
    /\ LET id == trace[Len(trace)].x   \* the local `result`: the integration selected
       IN  IF connected
           THEN /\ pc' = "fetch"
                /\ trace' = trace \o <<Ev("svc", "getCategorizedItems", "", "none", 0)>>
                /\ err' = err
                /\ hist' = [hist EXCEPT !.connected = TRUE]
           ELSE /\ pc' = "thrown"
                /\ trace' = trace \o <<Ev("ctl", "throw", id, "none", 0)>>
                /\ err' = <<"Unable", "to", "connect", "to">> \o integrationName(id)
                /\ hist' = hist
    /\ UNCHANGED <<state, context, opened, quickpick, tasks, telemetryEnabled, sel,
                   tog, inputs, render, pending>>

\* The handlers of a pick step that is no longer shown keep running, on a widget
\* that is gone.
staleAll(ts) == [k \in 1..Len(ts) |-> [ts[k] EXCEPT !.stale = TRUE]]

\* tog follows the items: a fetch that changes them ends a row of toggles.
togAfterItems(r) == IF r = context.items THEN tog ELSE NoTog

\* focus.ts 232-251: the items arrived, and counter < 2 or no item: the pick-item
\* step is shown.
MainFetchPick(r) ==
    /\ pc = "fetch"
    /\ state.counter < 2 \/ state.item = NoItem
    /\ pc' = "pickStep"
    /\ context' = updateContextItems(context, r)
    /\ trace' = trace
                \o Tel(stepEventName(opened, "launchpad/steps/main"),
                       "connected:true", "none", 0)
                \o <<Ev("ui", "pickStep", "", "none", 0)>>
    /\ hist' = sent(hist, stepEventName(opened, "launchpad/steps/main"))
    /\ opened' = TRUE
    /\ LET items == getItems(r, context.collapsed, state.item.id, state.selectTopItem)
       IN  quickpick' = [items |-> stepItems(items), placeholder |-> placeholderOf(items),
                         busy |-> FALSE, picked |-> state.item.id,
                         selectTopItem |-> state.selectTopItem]
    /\ tog' = togAfterItems(r)
    /\ UNCHANGED <<state, tasks, telemetryEnabled, err, sel, inputs, render, pending>>

\* focus.ts 232-234, 257: the items arrived, counter >= 2 and an item is there: the
\* loop resumes after the pick-item step.
MainFetchResume(r) ==
    /\ pc = "fetch"
    /\ ~(state.counter < 2 \/ state.item = NoItem)
    /\ context' = updateContextItems(context, r)
    /\ Proceed(state, trace)
    /\ tog' = togAfterItems(r)
    /\ UNCHANGED <<opened, quickpick, tasks, telemetryEnabled, err, sel, hist, inputs,
                   render>>

\* getCategorizedItems rejected: the await throws out of steps.
MainFetchFail ==
    /\ pc = "fetch"
    /\ pc' = "thrown"
    /\ err' = <<"getCategorizedItems", "failed">>
    /\ trace' = trace \o <<Ev("ctl", "throw", "", "none", 0)>>
    /\ UNCHANGED <<state, context, opened, quickpick, tasks, telemetryEnabled, sel, hist,
                   tog, inputs, render, pending>>

(* -------------------------- the pick-item step ------------------------- *)

\* A variant of pickResult that returns the item under its category's group.
pickResultByCategory(e) == WithGroup(e.item, categoryGroup(e.item.cat))

\* What pickFocusItemStep returns for a selected entry (focus.ts 491-494):
\* { ...selection[0].item, group: selection[0].group }
pickResult(e) == WithGroup(e.item, e.group)

\* The ids of the item entries getItems lists under group g.
visibleIds(items, collapsed, g) ==
    LET l == getItems(items, collapsed, 0, FALSE)
    IN  {l[k].item.id : k \in {j \in 1..Len(l) : l[j].t = "item" /\ l[j].group = g}}

\* The group whose header stands above entry k of a list.
listedUnder(list, k) ==
    LET hs == {j \in 1..k : list[j].t = "header"}
    IN  IF hs = {} THEN "none" ELSE list[CHOOSE j \in hs : \A i \in hs : i <= j].group

\* The user selects item entry k: the step returns it, state.item is set and the
\* loop goes on to the confirmation (focus.ts 252-259).
PickItem(k) ==
    /\ UserInput
    /\ pc = "pickStep"
    /\ k \in 1..Len(quickpick.items)
    /\ quickpick.items[k].t = "item"
    /\ LET e == quickpick.items[k]
           st == [stepForward(state) EXCEPT !.item = pickResult(e)]
       IN  /\ Proceed(st, trace \o <<Ev("ui", "picked", "", e.group, e.item.id)>>)
           /\ sel' = [group |-> listedUnder(quickpick.items, k), id |-> e.item.id]
    /\ hist' = [hist EXCEPT !.picked = TRUE]
    /\ quickpick' = NoQuickPick
    /\ tasks' = staleAll(tasks)
    /\ UNCHANGED <<context, opened, telemetryEnabled, err, render>>
    /\ tog' = NoTog

\* The user selects the header of a group: onDidSelect toggles the group
\* (focus.ts 343-359); the Reload directive makes the step return without a
\* selection, and the loop starts over (focus.ts 252).
PickHeader(k) ==
    /\ UserInput
    /\ pc = "pickStep"
    /\ k \in 1..Len(quickpick.items)
    /\ quickpick.items[k].t = "header"
    /\ LET ui == quickpick.items[k].group
           c1 == [context EXCEPT !.collapsed = toggled(context.collapsed, ui)]
       IN  /\ context' = IF telemetryEnabled THEN updateTelemetryContext(c1) ELSE c1
           /\ trace' = trace
                       \o Tel("launchpad/groupToggled", c1.collapsed[ui], ui, 0)
                       \o <<Ev("ui", "reload", "", ui, 0)>>
           /\ tog' = IF tog.group = ui /\ tog.n = 1
                     THEN [tog EXCEPT !.n = 2]
                     ELSE [group |-> ui, n |-> 1,
                           before |-> visibleIds(context.items, context.collapsed, ui),
                           start |-> context.collapsed[ui]]
    /\ pc' = "head"
    /\ quickpick' = NoQuickPick
    /\ tasks' = staleAll(tasks)
    /\ UNCHANGED <<state, opened, telemetryEnabled, err, sel, hist, render, pending>>

\* The user selects the Cancel entry: the command ends, the generator is not resumed.
PickCancel(k) ==
    /\ UserInput
    /\ pc = "pickStep"
    /\ k \in 1..Len(quickpick.items)
    /\ quickpick.items[k].t = "cancel"
    /\ pc' = "cancelled"
    /\ quickpick' = NoQuickPick
    /\ tasks' = staleAll(tasks)
    /\ UNCHANGED <<state, context, opened, telemetryEnabled, trace, err, sel, hist, render,
                   pending>>
    /\ tog' = NoTog

\* Back in the pick-item step: StepResultBreak, continue (focus.ts 252).
PickBack ==
    /\ UserInput
    /\ pc = "pickStep"
    /\ pc' = "head"
    /\ state' = stepBack(state)
    /\ trace' = trace \o <<Ev("ui", "pickBack", "", "none", 0)>>
    /\ quickpick' = NoQuickPick
    /\ tasks' = staleAll(tasks)
    /\ UNCHANGED <<context, opened, telemetryEnabled, err, sel, hist, render, pending>>
    /\ tog' = NoTog

\* The user closes the quick pick at any step: the generator is not resumed.
Dismiss ==
    /\ UserInput
    /\ pc \in {"connectStep", "pickStep", "confirmStep"}
    /\ pc' = "cancelled"
    /\ quickpick' = NoQuickPick
    /\ tasks' = staleAll(tasks)
    /\ UNCHANGED <<state, context, opened, telemetryEnabled, trace, err, sel, hist, render,
                   pending>>
    /\ tog' = NoTog

(* ------------------------- the button handlers ------------------------- *)

\* A handler invocation: what it awaits ("op": the item's service operation,
\* "fetch": updateContextItems), whether its widget is gone, and whether the
\* service operation it started is still running.
Task(stage, stale, awaiting) == [stage |-> stage, stale |-> stale, awaiting |-> awaiting]

removeAt(ts, i) == [k \in 1..(Len(ts) - 1) |-> IF k < i THEN ts[k] ELSE ts[k + 1]]

\* Whether a handler of the pick step awaits a refresh of context.items.
refreshing(t) == t.stage = "fetch"

\* onDidClickButton, RefreshQuickInputButton (focus.ts 432-436): busy, then the
\* forced fetch is awaited.
ClickRefresh ==
    /\ UserInput
    /\ pc = "pickStep"
    /\ Len(tasks) < MaxInFlight
    /\ quickpick' = [quickpick EXCEPT !.busy = TRUE]
    /\ tasks' = Append(tasks, Task("fetch", FALSE, FALSE))
    /\ UNCHANGED <<pc, state, context, opened, telemetryEnabled, trace, err, sel, hist,
                   render, pending>>
    /\ tog' = NoTog

\* A variant of ClickItemButton that starts the re-fetch without awaiting the
\* item's service operation.
ClickItemButtonNoAwait(k, b) ==
    /\ UserInput
    /\ pc = "pickStep"
    /\ Len(tasks) < MaxInFlight
    /\ k \in 1..Len(quickpick.items)
    /\ quickpick.items[k].t = "item"
    /\ \E j \in 1..Len(quickpick.items[k].buttons) : quickpick.items[k].buttons[j] = b
    /\ IF b = "OpenOnGitHub"
       THEN /\ quickpick' = [quickpick EXCEPT !.busy = TRUE]
            /\ tasks' = Append(tasks, Task("fetch", FALSE, FALSE))
       ELSE /\ quickpick' = [quickpick EXCEPT !.busy = TRUE]
            /\ tasks' = Append(tasks, Task("fetch", FALSE, TRUE))
    /\ UNCHANGED <<pc, state, context, opened, telemetryEnabled, trace, err, sel, hist,
                   render, pending>>
    /\ tog' = NoTog

\* onDidClickItemButton (focus.ts 450-480) on button b of item entry k: open is
\* synchronous and goes on to the fetch; the other operations are awaited first.
ClickItemButton(k, b) ==
    /\ UserInput
    /\ pc = "pickStep"
    /\ Len(tasks) < MaxInFlight
    /\ k \in 1..Len(quickpick.items)
    /\ quickpick.items[k].t = "item"
    /\ \E j \in 1..Len(quickpick.items[k].buttons) : quickpick.items[k].buttons[j] = b
    /\ IF b = "OpenOnGitHub"
       THEN /\ quickpick' = [quickpick EXCEPT !.busy = TRUE]
            /\ tasks' = Append(tasks, Task("fetch", FALSE, FALSE))
       ELSE /\ quickpick' = quickpick
            /\ tasks' = Append(tasks, Task("op", FALSE, TRUE))
    /\ UNCHANGED <<pc, state, context, opened, telemetryEnabled, trace, err, sel, hist,
                   render, pending>>
    /\ tog' = NoTog

\* The awaited pin / unpin / snooze / unsnooze / merge of handler i completed:
\* telemetry, busy, and the fetch is awaited (focus.ts 476-480).
TaskOpDone(i) ==
    /\ i \in 1..Len(tasks)
    /\ tasks[i].stage = "op"
    /\ tasks' = [tasks EXCEPT ![i] = Task("fetch", tasks[i].stale, FALSE)]
    /\ quickpick' = IF tasks[i].stale THEN quickpick ELSE [quickpick EXCEPT !.busy = TRUE]
    /\ UNCHANGED <<pc, state, context, opened, telemetryEnabled, trace, err, sel, hist,
                   tog, inputs, render, pending>>

\* The fetch of handler i answered r: context.items is replaced, and the handler's
\* widget gets the list getItems builds, as it is (focus.ts 436-445, 480-487).
TaskFetchDone(i, r) ==
    /\ i \in 1..Len(tasks)
    /\ tasks[i].stage = "fetch"
    /\ context' = updateContextItems(context, r)
    /\ quickpick' =
          IF tasks[i].stale THEN quickpick
          ELSE LET items == getItems(r, context.collapsed, quickpick.picked,
                                     quickpick.selectTopItem)
               IN  [quickpick EXCEPT !.items = items,
                                     !.placeholder = placeholderOf(items),
                                     !.busy = FALSE]
    /\ tasks' = removeAt(tasks, i)
    /\ tog' = togAfterItems(r)
    /\ UNCHANGED <<pc, state, opened, telemetryEnabled, trace, err, sel, hist, inputs,
                   render, pending>>

\* A variant of TaskFetchFail that empties the list of the widget.
TaskFetchFailClears(i) ==
    /\ i \in 1..Len(tasks)
    /\ tasks[i].stage = "fetch"
    /\ quickpick' = IF tasks[i].stale THEN quickpick
                    ELSE [quickpick EXCEPT !.busy = FALSE, !.items = <<>>,
                                           !.placeholder = placeholderOf(<<>>)]
    /\ tasks' = removeAt(tasks, i)
    /\ hist' = [hist EXCEPT !.rejected = @ + 1]
    /\ UNCHANGED <<pc, state, context, opened, telemetryEnabled, trace, err, sel,
                   tog, inputs, render, pending>>

\* The fetch of handler i rejected: finally resets busy, nothing else changes.
TaskFetchFail(i) ==
    /\ i \in 1..Len(tasks)
    /\ tasks[i].stage = "fetch"
    /\ quickpick' = IF tasks[i].stale THEN quickpick ELSE [quickpick EXCEPT !.busy = FALSE]
    /\ tasks' = removeAt(tasks, i)
    /\ hist' = [hist EXCEPT !.rejected = @ + 1]
    /\ UNCHANGED <<pc, state, context, opened, telemetryEnabled, trace, err, sel,
                   tog, inputs, render, pending>>

(* ---------------------------- the confirm step ------------------------- *)

\* ensureFocusItemCodeSuggestions answered: the 'select' event is sent and the
\* confirm step is shown (focus.ts 260-263).
EnsureDone ==
    /\ pc = "ensure"
    /\ pc' = "confirmStep"
    /\ trace' = trace
                \o Tel("launchpad/steps/details", "select", state.item.group, state.item.id)
                \o <<Ev("ui", "confirmStep", "", state.item.group, state.item.id)>>
    /\ hist' = [sent(hist, "launchpad/steps/details") EXCEPT !.confirm = TRUE]
    /\ UNCHANGED <<state, context, opened, quickpick, tasks, telemetryEnabled, err, sel,
                   tog, inputs, render, pending>>

\* The user selects action a: state.action is set and the action is dispatched
\* (focus.ts 264-311).
ConfirmSelect(a) ==
    /\ UserInput
    /\ pc = "confirmStep"
    /\ Dispatch([stepForward(state) EXCEPT !.action = a],
                trace \o <<Ev("ui", "confirmed", a.action, state.item.group, state.item.id)>>)
    /\ UNCHANGED <<context, opened, quickpick, tasks, telemetryEnabled, err, sel, hist,
                   tog, render>>

\* A variant of ConfirmBack that falls through to the dispatch.
ConfirmBackFallsThrough ==
    /\ UserInput
    /\ pc = "confirmStep"
    /\ Dispatch(stepBack(state), trace \o <<Ev("ui", "confirmBack", "", "none", 0)>>)
    /\ UNCHANGED <<context, opened, quickpick, tasks, telemetryEnabled, err, sel, hist,
                   tog, render>>

\* Back in the confirm step: StepResultBreak, continue (focus.ts 264).
ConfirmBack ==
    /\ UserInput
    /\ pc = "confirmStep"
    /\ pc' = "head"
    /\ state' = stepBack(state)
    /\ trace' = trace \o <<Ev("ui", "confirmBack", "", "none", 0)>>
    /\ UNCHANGED <<context, opened, quickpick, tasks, telemetryEnabled, err, sel, hist,
                   tog, render, pending>>

\* A dispatched operation that nobody awaits completes (focus.ts 276-298).
DispatchedDone(op) ==
    /\ op \in pending
    /\ pending' = pending \ {op}
    /\ UNCHANGED <<pc, state, context, opened, quickpick, tasks, telemetryEnabled, trace, err,
                   sel, hist, tog, inputs, render>>

(* ------------------------------ the system ----------------------------- *)

Next ==
    \/ Start
    \/ HeadDone
    \/ HeadConnect
    \/ HeadFetch
    \/ \E id \in OfferedIntegrations : ConnectSelect(id)
    \/ ConnectBack
    \/ \E connected \in BOOLEAN : ConnectDone(connected)
    \/ \E r \in FetchResults : MainFetchPick(r)
    \/ \E r \in FetchResults : MainFetchResume(r)
    \/ MainFetchFail
    \/ \E k \in 1..Len(quickpick.items) : PickItem(k)
    \/ \E k \in 1..Len(quickpick.items) : PickHeader(k)
    \/ \E k \in 1..Len(quickpick.items) : PickCancel(k)
    \/ PickBack
    \/ Dismiss
    \/ ClickRefresh
    \/ \E k \in 1..Len(quickpick.items) :
          \E b \in {"Merge", "Pin", "Unpin", "Snooze", "Unsnooze", "OpenOnGitHub"} :
             ClickItemButton(k, b)
    \/ \E i \in 1..Len(tasks) : TaskOpDone(i)
    \/ \E i \in 1..Len(tasks) : \E r \in FetchResults : TaskFetchDone(i, r)
    \/ \E i \in 1..Len(tasks) : TaskFetchFail(i)
    \/ EnsureDone
    \/ \E a \in ConfirmActions : ConfirmSelect(a)
    \/ ConfirmBack
    \/ \E op \in pending : DispatchedDone(op)

Spec == Init /\ [][Next]_vars

(* ----------------------- the detail lines, alone ----------------------- *)

\* Items of every actionable category, with two authors and two dates each.
RenderItems ==
    {[id |-> 1, cat |-> c, pinned |-> FALSE, snoozed |-> FALSE, author |-> a,
      updated |-> u, created |-> d] :
        c \in Categories, a \in {"alice", "bob"},
        u \in {[n |-> 1, unit |-> "hours"], [n |-> 3, unit |-> "weeks"]},
        d \in {[n |-> 2, unit |-> "days"], [n |-> 5, unit |-> "months"]}}

\* One item is in the list, and will be selected.
RenderInit ==
    /\ pc = "render"
    /\ telemetryEnabled = FALSE
    /\ state = StartState(TRUE, NoItem, NoAction, "none", FALSE)
    /\ context = [items |-> <<>>, collapsed |-> [g \in Groups |-> "unset"],
                  telemetryContext |-> initialTelemetryContext(FALSE)]
    /\ opened = FALSE
    /\ quickpick = NoQuickPick
    /\ tasks = <<>>
    /\ trace = <<>>
    /\ err = <<>>
    /\ sel = NoSel
    /\ hist = [picked |-> FALSE, confirm |-> FALSE, connected |-> FALSE, opened |-> 0,
               first |-> "none", rejected |-> 0]
    /\ tog = NoTog
    /\ inputs = 0
    /\ \E i \in RenderItems : render = [item |-> i, pick |-> <<>>, confirm |-> <<>>]
    /\ pending = {}

\* getItems on the item, every group expanded: the detail of its entry
\* (focus.ts 379-398).
RenderPick ==
    /\ pc = "render"
    /\ render.pick = <<>>
    /\ LET l == getItems(<<render.item>>, [g \in Groups |-> "false"], 0, FALSE)
           k == CHOOSE j \in 1..Len(l) : l[j].t = "item"
       IN  render' = [render EXCEPT !.pick = l[k].detail]
    /\ UNCHANGED <<pc, state, context, opened, quickpick, tasks, telemetryEnabled, trace, err,
                   sel, hist, tog, inputs, pending>>

\* confirmStep on the item: the detail of the first entry (focus.ts 507-519).
RenderConfirm ==
    /\ pc = "render"
    /\ render.confirm = <<>>
    /\ render' = [render EXCEPT !.confirm = confirmDetail(render.item)]
    /\ UNCHANGED <<pc, state, context, opened, quickpick, tasks, telemetryEnabled, trace, err,
                   sel, hist, tog, inputs, pending>>

RenderNext == RenderPick \/ RenderConfirm

SpecRender == RenderInit /\ [][RenderNext]_vars

(* ------------------------------ the claims ----------------------------- *)

\* C1: whenever the pick-item step is displayed while context.items is empty, on
\* first display and after a button handler has re-fetched the items and replaced
\* the list, the list is exactly one entry, the Cancel directive, and holds no
\* item entry from which the confirm step could be reached.
C1_EmptyShowsOnlyCancel ==
    (pc = "pickStep" /\ context.items = <<>>) =>
        /\ quickpick.items = <<CancelEntry>>
        /\ \A k \in 1..Len(quickpick.items) : quickpick.items[k].t # "item"

\* C2: when the confirm step is entered after a selection in the pick-item step,
\* state.item.group is the group under whose header the selected entry stood in
\* the list shown at the selection, and the 'select' and action telemetry events
\* that follow carry that group as item.group.
C2_GroupCarriedForward ==
    sel # NoSel =>
        /\ pc \in {"ensure", "confirmStep"} =>
              (state.item.group = sel.group /\ state.item.id = sel.id)
        /\ \A k \in 1..Len(trace) :
              (trace[k].k = "tel"
               /\ trace[k].n \in {"launchpad/steps/details", "launchpad/action"}) =>
                  (trace[k].g = sel.group /\ trace[k].id = sel.id)

\* C2, witness: the confirm step is shown for an item selected under "pinned", a
\* group other than its category's, and the 'select' event has been sent.
C2_Witness ==
    /\ pc = "confirmStep"
    /\ sel.group = "pinned"
    /\ \E k \in 1..Len(trace) : trace[k].n = "launchpad/steps/details"

\* C3: after the header of a group has been selected twice in a row, the items
\* unchanged, the item entries listed under the group are those listed before the
\* two selections, whatever the group's collapse state was (collapsed, expanded,
\* absent from the map).
C3_DoubleToggleRestores ==
    tog.n = 2 => visibleIds(context.items, context.collapsed, tog.group) = tog.before

\* C3, witness: a group that listed items has been toggled twice.
C3_Witness == tog.n = 2 /\ tog.before # {}

\* C4: when the integration chosen in the connect step cannot be connected, steps
\* throws 'Unable to connect to <integration>' naming it, and the step sequence
\* then does nothing more: it requests no items, shows no step, dispatches no
\* action; nothing else throws a connection error.
C4_ConnectFailureAborts ==
    /\ [](\/ err = <<>>
          \/ err = <<"getCategorizedItems", "failed">>
          \/ /\ pc = "thrown"
             /\ Len(trace) >= 2
             /\ trace[Len(trace) - 1].n = "connectSelected"
             /\ trace[Len(trace)].n = "throw"
             /\ LET id == trace[Len(trace) - 1].x
                IN  err = <<"Unable", "to", "connect", "to">>
                          \o (IF id = "github" THEN <<"GitHub">>
                              ELSE <<"integration", "(", id, ")">>))
    /\ [][(pc = "connecting" /\ pc' # "connecting") =>
             \/ pc' = "fetch" /\ err' = <<>>
             \/ pc' = "thrown" /\ err' # <<>> /\ err'[1] = "Unable"]_vars
    /\ [][pc = "thrown" =>
             (pc' = "thrown" /\ trace' = trace /\ state' = state /\ err' = err
              /\ quickpick' = quickpick /\ opened' = opened)]_vars

\* C4, witness: the connection failed and steps threw.
C4_Witness == pc = "thrown" /\ err # <<>> /\ err[1] = "Unable"

\* C5, as claimed: the confirm step is never shown before a pick-item step of the
\* run has returned an item, and the connect step is never shown once the wizard
\* has advanced to the confirm step.
C5_StepsInOrder ==
    /\ pc = "confirmStep" => hist.picked
    /\ pc = "connectStep" => ~hist.confirm

\* C5, amended: the confirm step is never shown before a pick-item step of the
\* run has returned an item, which is the item it is shown for; the connect step
\* is shown only at step counter 0, so after the confirm step only once the user
\* has backed out to the first step.
C5_StepsInOrderAmended ==
    /\ pc = "confirmStep" =>
          (hist.picked /\ state.item # NoItem /\ state.item.id = sel.id
           /\ state.counter >= 1)
    /\ pc = "connectStep" => state.counter = 0

\* C5, witness: the connect step is shown after the confirm step was.
C5_Witness == pc = "connectStep" /\ hist.confirm

DispatchOps ==
    {"merge", "open", "switchTo", "openChanges", "openInGraph", "openCodeSuggestion"}

IsDispatch(e) == e.k = "svc" /\ e.n \in DispatchOps
IsActionTel(e) == e.k = "tel" /\ e.n = "launchpad/action"

\* The place of an event in the order C6 claims / in the order of the code.
C6_Rank(e, telemetryFirst) ==
    CASE e.k = "svc" /\ e.n = "getCategorizedItems" -> 1
      [] e.k = "ui" /\ e.n = "pickStep" -> 2
      [] e.k = "ui" /\ e.n = "picked" -> 3
      [] e.k = "ui" /\ e.n = "confirmStep" -> 4
      [] e.k = "ui" /\ e.n = "confirmed" -> 5
      [] IsActionTel(e) -> IF telemetryFirst THEN 6 ELSE 7
      [] IsDispatch(e) -> IF telemetryFirst THEN 7 ELSE 6
      [] e.k = "ctl" /\ e.n = "endSteps" -> 8
      [] OTHER -> 0

C6_Ordered(telemetryFirst) ==
    \A i, j \in 1..Len(trace) :
        (i < j /\ C6_Rank(trace[i], telemetryFirst) > 0
               /\ C6_Rank(trace[j], telemetryFirst) > 0) =>
            C6_Rank(trace[i], telemetryFirst) < C6_Rank(trace[j], telemetryFirst)

\* C6, as claimed: in an iteration that dispatches an action the events come in
\* the order items requested, pick list shown, user picks, confirmation
\* requested, action dispatched, action telemetry recorded, end of the sequence.
C6_TelemetryAfterDispatch ==
    (\E d \in 1..Len(trace) : IsDispatch(trace[d])) => C6_Ordered(FALSE)

\* C6, amended: in an iteration that dispatches an action the events come in the
\* order items requested, pick list shown, user picks, confirmation requested,
\* action telemetry recorded, action dispatched, end of the sequence; the items
\* are always requested first, and with telemetry on the action's telemetry
\* event is the event right before the dispatch.
C6_TelemetryBeforeDispatch ==
    \A d \in 1..Len(trace) : IsDispatch(trace[d]) =>
        /\ C6_Ordered(TRUE)
        /\ \E f \in 1..d : trace[f].k = "svc" /\ trace[f].n = "getCategorizedItems"
        /\ telemetryEnabled => (d > 1 /\ IsActionTel(trace[d - 1]))
        /\ d = Len(trace) \/ (d + 1 = Len(trace) /\ trace[d + 1].n = "endSteps")

\* C6, witness: an iteration that showed the pick list and the confirm step, sent
\* the action's telemetry event and dispatched the action.
C6_Witness ==
    \E s, c, d \in 1..Len(trace) :
        /\ trace[s].n = "pickStep"
        /\ trace[c].n = "confirmStep"
        /\ IsDispatch(trace[d])
        /\ d > 1
        /\ IsActionTel(trace[d - 1])

\* The operation and argument the claim gives for an action.
C7_Expected(a) ==
    CASE a = "merge" -> <<"merge", "">>
      [] a = "open" -> <<"open", "">>
      [] a = "soft-open" -> <<"open", "">>
      [] a = "switch" -> <<"switchTo", "">>
      [] a = "show-overview" -> <<"switchTo", "">>
      [] a = "switch-and-code-suggest" -> <<"switchTo", "true">>
      [] a = "code-suggest" -> <<"switchTo", "true">>
      [] a = "open-changes" -> <<"openChanges", "">>
      [] a = "open-in-graph" -> <<"openInGraph", "">>
      [] a = "open-suggestion" -> <<"openCodeSuggestion", "suggestion1">>

\* C7: for every action selected in the confirm step the dispatcher calls exactly
\* one operation of the service on the selected item, the one the table gives;
\* the sequence is ended after every action but soft-open.
C7_DispatchTable ==
    \A i \in 1..Len(trace) :
        (trace[i].k = "ui" /\ trace[i].n = "confirmed") =>
            LET rest == SubSeq(trace, i + 1, Len(trace))
                svc == SelectSeq(rest, LAMBDA e : e.k = "svc")
                ended == \E k \in 1..Len(rest) : rest[k].n = "endSteps"
            IN  /\ Len(svc) = 1
                /\ <<svc[1].n, svc[1].x>> = C7_Expected(trace[i].x)
                /\ svc[1].id = trace[i].id
                /\ svc[1].id = state.item.id
                /\ ended <=> trace[i].x # "soft-open"
                /\ trace[i].x = "soft-open" => state.counter = 2

\* C7, witness: switch-and-code-suggest was selected and dispatched.
C7_Witness ==
    \E i \in 1..Len(trace) :
        /\ trace[i].n = "confirmed"
        /\ trace[i].x = "switch-and-code-suggest"
        /\ i < Len(trace)

\* C8: with telemetry on, once the items have been refreshed the telemetry
\* context describes the current items: items.count, groups.count, and every
\* groups.<g>.count and groups.<g>.collapsed that is present.
C8_TelemetryDescribesItems ==
    LET tc == context.telemetryContext
        ui == groupAndSortFocusItems(context.items)
    IN  (telemetryEnabled /\ tc.itemsCount >= 0) =>
            /\ tc.itemsCount = Len(context.items)
            /\ tc.groupsCount = Cardinality({g \in Groups : Len(ui[g]) > 0})
            /\ \A g \in Groups :
                  tc.count[g] # -1 =>
                      (tc.count[g] = Len(ui[g]) /\ tc.collapsed[g] = context.collapsed[g])

\* C9: no two refreshes of context.items (the loop's fetch, the fetch of a
\* Refresh-button handler, the fetch of an item-button handler) are in flight at
\* the same time.
C9_OneRefreshAtATime ==
    (IF pc = "fetch" THEN 1 ELSE 0)
    + Cardinality({i \in 1..Len(tasks) : refreshing(tasks[i])}) <= 1

StartsWith(s, p) == Len(s) >= Len(p) /\ SubSeq(s, 1, Len(p)) = p

Contains(s, p) == \E k \in 0..(Len(s) - Len(p)) : SubSeq(s, k + 1, k + Len(p)) = p

\* C10: for every category the pick list's detail is the indentation, then the
\* category's title of actionGroupMap and a bullet (nothing for 'other'), then
\* the date and the author; the confirm step's detail is the category's
\* description with author and createdDateRelative filled in; for 'conflicts'
\* the pick list's detail contains 'Resolve Conflicts'.
C10_DetailTemplates ==
    LET i == render.item
        rest == fromNow(i.updated) \o <<"by", "@", i.author>>
        description == actionGroupMap(i.cat)[2]
    IN  /\ render.pick # <<>> =>
              /\ render.pick[1] = "      "
              /\ IF i.cat = "other"
                 THEN Tail(render.pick) = rest
                 ELSE /\ StartsWith(Tail(render.pick), actionGroupMap(i.cat)[1] \o <<"u2022">>)
                      /\ Tail(render.pick) = actionGroupMap(i.cat)[1] \o <<"u2022">> \o rest
              /\ i.cat = "conflicts" => Contains(render.pick, <<"Resolve", "Conflicts">>)
        /\ render.confirm # <<>> =>
              /\ render.confirm =
                    CASE i.cat = "needs-my-review" ->
                            <<i.author, "requested", "your", "review">>
                      [] i.cat = "other" -> <<"Opened", "by", i.author>> \o fromNow(i.created)
                      [] OTHER -> description
              /\ \A k \in 1..Len(render.confirm) :
                    render.confirm[k] \notin {"${author}", "${createdDateRelative}"}

\* C10, witness: both details of a 'conflicts' item have been rendered.
C10_Witness ==
    render.item.cat = "conflicts" /\ render.pick # <<>> /\ render.confirm # <<>>

\* The generator is between the head of the loop and the confirm step.
Resuming == pc \in {"head", "fetch", "ensure"}

\* Where the loop resumes, the part that does not depend on the confirm flag: the
\* connect step is shown only at counter < 1; once the items are there the
\* pick-item step is shown exactly when counter < 2 or there is no item; selecting
\* soft-open opens the item, sets the counter to 2 and does not end the sequence.
C11_CounterDecides ==
    /\ [][(pc = "head" /\ pc' = "connectStep") => state.counter < 1]_vars
    /\ [][(pc = "fetch" /\ pc' \notin {"fetch", "thrown"}) =>
             (pc' = "pickStep" <=> (state.counter < 2 \/ state.item = NoItem))]_vars
    /\ [][(pc = "confirmStep"
           /\ \E i \in 1..Len(trace') :
                 trace'[i].n = "confirmed" /\ trace'[i].x = "soft-open") =>
             /\ pc' = "head"
             /\ state'.counter = 2
             /\ state'.item = state.item
             /\ \E i \in 1..Len(trace') : trace'[i].k = "svc" /\ trace'[i].n = "open"
             /\ \A i \in 1..Len(trace') : trace'[i].n # "endSteps"]_vars

BackedOut ==
    /\ pc \in {"pickStep", "confirmStep"}
    /\ Len(trace') > Len(trace)
    /\ \E i \in (Len(trace) + 1)..Len(trace') :
          trace'[i].k = "ui" /\ trace'[i].n \in {"pickBack", "reload", "confirmBack"}

\* C12: when the pick-item step or the confirm step returns StepResultBreak, the
\* iteration dispatches no action, sends no 'launchpad/action' event, leaves
\* state.action as it is and does not call endSteps; the loop is at its head
\* again, still running, at a counter that shows the same or an earlier step.
C12_BackOutDispatchesNothing ==
    [][BackedOut =>
          /\ pc' = "head"
          /\ canStepsContinue(state')
          /\ state'.action = state.action
          /\ state'.counter <= state.counter
          /\ pc = "confirmStep" => state'.counter < 2
          /\ \A i \in 1..Len(trace') :
                /\ ~IsDispatch(trace'[i])
                /\ ~IsActionTel(trace'[i])
                /\ trace'[i].n # "endSteps"]_vars

\* C12, witness: the user backed out of the confirm step of a run that has an
\* action in its state, and the loop is at its head.
C12_Witness ==
    /\ pc = "head"
    /\ trace # <<>>
    /\ trace[Len(trace)].n = "confirmBack"
    /\ state.action # NoAction

\* C13: the handler of a pin, unpin, snooze, unsnooze or merge button starts its
\* re-fetch of the items only when the service operation has completed, and the
\* list of the pick-item step is replaced only when a handler's re-fetch completes;
\* the merge, switch, open-changes and open-in-graph operations dispatched from
\* the confirm step are not awaited: while one is still running the sequence has
\* already been ended.
C13_AwaitedAndNotAwaited ==
    /\ [](\A i \in 1..Len(tasks) : refreshing(tasks[i]) => ~tasks[i].awaiting)
    /\ [][(pc = "pickStep" /\ pc' = "pickStep" /\ quickpick'.items # quickpick.items) =>
             \E i \in 1..Len(tasks) :
                 /\ refreshing(tasks[i])
                 /\ ~tasks[i].stale
                 /\ tasks' = removeAt(tasks, i)]_vars
    /\ [](pending # {} =>
             /\ pending \subseteq {"merge", "switchTo", "openChanges", "openInGraph"}
             /\ pc \in {"head", "done"}
             /\ ~canStepsContinue(state))

\* C13, witness: the sequence has ended while a dispatched operation is still
\* running, and a button handler is still awaiting its item's operation.
C13_Witness ==
    /\ pc = "done"
    /\ pending # {}
    /\ \E i \in 1..Len(tasks) : tasks[i].stage = "op" /\ tasks[i].awaiting

\* C14: every iteration of the loop suspends at a step shown to the user, throws
\* or ends the sequence: an iteration that comes back to the head of the loop with
\* the sequence still running does so on an input of the user, never on its own.
C14_IterationsWaitForTheUser ==
    [][(pc \notin {"head", "start"} /\ pc' = "head" /\ canStepsContinue(state')) =>
          inputs' = inputs + 1]_vars

\* C15: the items are requested, the pick-item step is shown and a step event
\* with 'connected: true' is sent only in a run in which an integration was found
\* connected (hasConnectedIntegration answered true, or the integration chosen in
\* the connect step was connected); backing out of the connect step does not
\* lead to the pick-item step.
C15_FetchOnlyWhenConnected ==
    /\ pc \in {"fetch", "pickStep"} => hist.connected
    /\ \A i \in 1..Len(trace) :
          (trace[i].k = "tel" /\ trace[i].x = "connected:true") => hist.connected
    /\ \A i, j \in 1..Len(trace) :
          (i < j /\ trace[i].n = "connectBack") => trace[j].n # "pickStep"

\* C16: at the start of a run draft, other and snoozed are collapsed and every
\* other group is expanded when no initialGroup is given; with an initialGroup
\* every other group of groupMap is collapsed and initialGroup is expanded, also
\* when it is draft, other or snoozed.
C16_InitialCollapse ==
    (pc # "start" /\ inputs = 0) =>
        \A g \in Groups :
            isCollapsed(context.collapsed, g) <=>
                IF state.initialGroup = "none"
                THEN g \in {"draft", "other", "snoozed"}
                ELSE g # state.initialGroup

\* C16, witness: the pick-item step of a run started with initialGroup snoozed
\* is shown, before any input, with snoozed expanded.
C16_Witness ==
    /\ pc = "pickStep"
    /\ inputs = 0
    /\ state.initialGroup = "snoozed"
    /\ ~isCollapsed(context.collapsed, "snoozed")
    /\ isCollapsed(context.collapsed, "mergeable")

\* The positions of list l that hold an entry of type t of group g.
EntriesOf(l, t, g) == {k \in 1..Len(l) : l[k].t = t /\ l[k].group = g}

\* What the C17 claim says of a list l built from items under a collapse map.
C17_WellFormed(l, items, collapsed) ==
    LET ui == groupAndSortFocusItems(items)
    IN  /\ \A g \in Groups :
              IF Len(ui[g]) = 0
              THEN \A k \in 1..Len(l) : l[k].group # g
              ELSE /\ Cardinality(EntriesOf(l, "sep", g)) = 1
                   /\ Cardinality(EntriesOf(l, "header", g)) = 1
                   /\ \A k \in EntriesOf(l, "sep", g) :
                         k < Len(l) /\ l[k + 1].t = "header" /\ l[k + 1].group = g
                   /\ IF isCollapsed(collapsed, g)
                      THEN EntriesOf(l, "item", g) = {}
                      ELSE /\ Cardinality(EntriesOf(l, "item", g)) = Len(ui[g])
                           /\ {l[k].item : k \in EntriesOf(l, "item", g)}
                                 = {ui[g][k] : k \in 1..Len(ui[g])}
        /\ \A k \in 1..Len(l) :
              /\ l[k].t \in {"sep", "header", "item"} => l[k].group \in Groups
              /\ l[k].t = "item" => listedUnder(l, k) = l[k].group
              /\ l[k].t = "cancel" => (items = <<>> /\ l = <<CancelEntry>>)

\* C17: in every list built for the pick-item step (on display of the step and by
\* the button handlers) every non-empty group contributes one separator and one
\* header, its item entries are there exactly when it is not collapsed, and empty
\* groups contribute nothing; every item entry is tagged with its group.
C17_ListStructure ==
    [][(pc' = "pickStep" /\ quickpick'.items # quickpick.items) =>
          C17_WellFormed(quickpick'.items, context'.items, context'.collapsed)]_vars

\* C17, witness: a list is shown that holds a collapsed group, its items hidden,
\* and an expanded group with its items.
C17_Witness ==
    /\ pc = "pickStep"
    /\ \E g, h \in Groups :
          /\ isCollapsed(context.collapsed, g)
          /\ EntriesOf(quickpick.items, "header", g) # {}
          /\ EntriesOf(quickpick.items, "item", g) = {}
          /\ ~isCollapsed(context.collapsed, h)
          /\ EntriesOf(quickpick.items, "item", h) # {}
    /\ C17_WellFormed(quickpick.items, context.items, context.collapsed)

\* C18: once steps has built the collapse map, it changes only when the user
\* selects a group header, and then only for that group: fetching the items (the
\* loop, the Refresh button, the item buttons), the item operations, backing
\* out of a step and soft-open leave it as it is.
C18_CollapseFrame ==
    [][(pc # "start" /\ context'.collapsed # context.collapsed) =>
          /\ pc = "pickStep"
          /\ trace' # <<>>
          /\ trace'[Len(trace')].n = "reload"
          /\ Len(trace') > Len(trace)
          /\ \A g \in Groups :
                context'.collapsed[g] # context.collapsed[g] => g = trace'[Len(trace')].g]_vars

\* C18, witness: the confirm step is shown again after soft-open and a new fetch
\* of the items, and the collapse map is the one the run started with.
C18_Witness ==
    /\ pc = "confirmStep"
    /\ state.counter = 2
    /\ context.items # <<>>
    /\ context.collapsed = initialCollapsed(state.initialGroup)

\* The step shown in this step of the run, if one is: "connectStep" or "pickStep".
Displays(step) == pc # step /\ pc' = step

\* The step event sent in this step of the run is named n.
SendsStepEvent(n) ==
    \E i \in (IF pc = "head" THEN 1 ELSE Len(trace) + 1)..Len(trace') :
        /\ trace'[i].k = "tel"
        /\ trace'[i].n = n
        /\ i < Len(trace')
        /\ trace'[i + 1].k = "ui"

\* C19: with telemetry on, 'launchpad/opened' is sent once in a run that shows a
\* step, at the first display of the connect or the pick-item step, before any
\* other step event; every later display of the connect step sends
\* 'launchpad/steps/connect', every later display of the pick-item step sends
\* 'launchpad/steps/main'.
C19_OpenedOnce ==
    /\ [](telemetryEnabled =>
             /\ hist.opened <= 1
             /\ hist.first \in {"none", "launchpad/opened"}
             /\ pc \in {"connectStep", "pickStep", "confirmStep"} => hist.opened = 1)
    /\ [][(telemetryEnabled /\ Displays("connectStep")) =>
             SendsStepEvent(IF hist.opened = 0 THEN "launchpad/opened"
                            ELSE "launchpad/steps/connect")]_vars
    /\ [][(telemetryEnabled /\ Displays("pickStep")) =>
             SendsStepEvent(IF hist.opened = 0 THEN "launchpad/opened"
                            ELSE "launchpad/steps/main")]_vars

\* C19, witness: the pick-item step is shown for the second time or later, its
\* event is 'launchpad/steps/main', and 'launchpad/opened' was sent once, first.
C19_Witness ==
    /\ telemetryEnabled
    /\ pc = "pickStep"
    /\ hist.opened = 1
    /\ hist.first = "launchpad/opened"
    /\ \E i \in 1..Len(trace) : trace[i].n = "launchpad/steps/main"

\* C20: while the pick-item step is shown, quickpick.busy is true whenever a
\* refresh started by a Refresh-button or item-button handler of the step is in
\* flight, and false when none is.
C20_BusyWhileRefreshing ==
    pc = "pickStep" =>
        (quickpick.busy <=> \E i \in 1..Len(tasks) : refreshing(tasks[i]) /\ ~tasks[i].stale)

\* C21: when the fetch of a Refresh-button or item-button handler rejects, the
\* handler resets quickpick.busy to false and leaves the list and the placeholder
\* of the step, and the items of the context, as they were.
C21_FailedRefreshKeepsList ==
    [][hist'.rejected = hist.rejected + 1 =>
          /\ quickpick'.items = quickpick.items
          /\ quickpick'.placeholder = quickpick.placeholder
          /\ context' = context
          /\ \E i \in 1..Len(tasks) :
                /\ refreshing(tasks[i])
                /\ tasks' = removeAt(tasks, i)
                /\ IF tasks[i].stale THEN quickpick' = quickpick
                   ELSE quickpick'.busy = FALSE]_vars

\* C21, witness: a handler's fetch rejected while the pick-item step was shown,
\* and the step still lists its items, not busy.
C21_Witness ==
    /\ pc = "pickStep"
    /\ hist.rejected > 0
    /\ tasks = <<>>
    /\ ~quickpick.busy
    /\ \E k \in 1..Len(quickpick.items) : quickpick.items[k].t = "item"

\* The entries of the pick-item list that are marked picked.
C22_Marked ==
    {k \in 1..Len(quickpick.items) :
        quickpick.items[k].t = "item" /\ quickpick.items[k].picked}

\* The first group of the priority order that the list shows a header of, that is,
\* the first one that has items.
C22_TopGroup ==
    LET shown(g) == \E k \in 1..Len(quickpick.items) :
                        quickpick.items[k].t = "header" /\ quickpick.items[k].group = g
    IN  IF shown("mergeable") THEN "mergeable"
        ELSE IF shown("blocked") THEN "blocked"
        ELSE IF shown("follow-up") THEN "follow-up"
        ELSE IF shown("needs-review") THEN "needs-review"
        ELSE "none"

\* Entry k is the first item listed under the first group of the priority order.
C22_IsTopEntry(k) ==
    /\ k > 1
    /\ quickpick.items[k].group = C22_TopGroup
    /\ quickpick.items[k - 1].t = "header"

\* C22: in the pick-item list at most one entry is marked picked; with a
\* previously picked id the marked entry is the one with that id, selectTopItem
\* playing no part; without one, and with selectTopItem set, the marked entry is
\* the first item of the first non-empty group in the order mergeable, blocked,
\* follow-up, needs-review; without either, no entry is marked.
C22_OnePickedEntry ==
    pc = "pickStep" =>
        /\ Cardinality(C22_Marked) <= 1
        /\ \A k \in C22_Marked :
              IF quickpick.picked # 0
              THEN quickpick.items[k].item.id = quickpick.picked
              ELSE quickpick.selectTopItem /\ C22_IsTopEntry(k)

====
